---------------------------- MODULE Spec2Model ----------------------------
(***************************************************************************)
(* Code Relay command line tool (coderelay.py).                            *)
(*                                                                         *)
(* The program is four click commands -- user-prefs, list-repos,           *)
(* start-project and publish-changes -- each a fresh process that reads    *)
(* and writes two kinds of JSON file (the per-user preference file and a   *)
(* per-workspace coderelay.json), fetches the catalog of projects from a   *)
(* remote endpoint and shells out to git.  Each command is one action;     *)
(* the answers typed at its prompts, the outcome of the network read and   *)
(* the exit codes of the git subprocesses are the action's inputs.         *)
(***************************************************************************)
EXTENDS Naturals, Sequences, FiniteSets

VARIABLES
    prefsFile,   \* <user-config-dir>/coderelay/coderelay.json
    remote,      \* the catalog the remote endpoint currently serves
    gitInstalled,\* whether shutil.which("git") finds a binary
    workspaces,  \* <documents>/code-relay/<name>, one directory per name
    lastRun      \* what the most recent command read, printed and ran

vars == <<prefsFile, remote, gitInstalled, workspaces, lastRun>>

(***************************************************************************)
(* Bounds of the model.                                                    *)
(***************************************************************************)
\* Longest languages / frameworks list of a project drawn for the matcher.
MaxTags == 2

\* Most git subprocesses of one publish-changes run that exit non-zero.
MaxFailing == 1

(***************************************************************************)
(* Files, and JSON text.                                                   *)
(*                                                                         *)
(* A file either does not exist or holds a content.  A JSON object on disk *)
(* is the sequence of its <<key, value>> members in the order they were    *)
(* written; a dict in memory is a function from its keys.                  *)
(***************************************************************************)
NoFile == [exists |-> FALSE, content |-> <<>>]

File(content) == [exists |-> TRUE, content |-> content]

\* The order in which the members of the dicts of this program are written.
KeyOrder ==
    <<"name", "desc", "languages", "frameworks", "excluded_frameworks",
      "git", "task">>

\* ujson.dump(obj, file): one member per key of the dict.
dump_drops_last(obj) ==
    LET keys == SelectSeq(KeyOrder, LAMBDA k : k \in DOMAIN obj)
    IN  [i \in 1 .. (IF Len(keys) = 0 THEN 0 ELSE Len(keys) - 1)
            |-> <<keys[i], obj[keys[i]]>>]

dump(obj) ==
    LET keys == SelectSeq(KeyOrder, LAMBDA k : k \in DOMAIN obj)
    IN  [i \in 1 .. Len(keys) |-> <<keys[i], obj[keys[i]]>>]

\* ujson.load(file): a dict with the keys of the text; of two members with
\* the same key the later one is kept.
load(text) ==
    LET keys == {text[i][1] : i \in DOMAIN text}
        last(k) == CHOOSE i \in DOMAIN text :
                       /\ text[i][1] = k
                       /\ \A j \in DOMAIN text : text[j][1] = k => j <= i
    IN  [k \in keys |-> text[last(k)][2]]

\* x in list
InList(x, list) == \E i \in DOMAIN list : list[i] = x

(***************************************************************************)
(* The preference file.                                                    *)
(***************************************************************************)
\* The record user-prefs writes when the file is absent.
DefaultPrefs ==
    [languages |-> <<>>, frameworks |-> <<>>, excluded_frameworks |-> <<>>]

(***************************************************************************)
(* The matcher: the body of the loop over available_projects in list_repos.*)
(***************************************************************************)
GoodMatch == [match |-> "good match", match_color |-> "green"]

\* for language in project["languages"]: ... break
RECURSIVE LanguageLoop(_, _, _)
LanguageLoop(languages, config, st) ==
    IF languages = <<>> THEN st
    ELSE IF ~InList(Head(languages), config["languages"])
         THEN [match |-> "new language", match_color |-> "red"]
         ELSE LanguageLoop(Tail(languages), config, st)

\* The framework loop as the specification's section 4.3 describes it: no
\* stop on an excluded framework, so a later new framework overwrites it.
RECURSIVE FrameworkLoop_no_break(_, _, _)
FrameworkLoop_no_break(frameworks, config, st) ==
    IF frameworks = <<>> THEN st
    ELSE LET framework == Head(frameworks)
         IN  IF /\ InList(framework, config["excluded_frameworks"])
                /\ st.match # "new language"
             THEN FrameworkLoop_no_break(Tail(frameworks), config,
                      [match |-> "excluded framework", match_color |-> "red"])
             ELSE IF /\ ~InList(framework, config["frameworks"])
                     /\ st.match # "new language"
                  THEN FrameworkLoop_no_break(Tail(frameworks), config,
                           [match |-> "new framework", match_color |-> "yellow"])
                  ELSE FrameworkLoop_no_break(Tail(frameworks), config, st)

\* The framework loop without the match != "new language" guards.
RECURSIVE FrameworkLoop_no_guard(_, _, _)
FrameworkLoop_no_guard(frameworks, config, st) ==
    IF frameworks = <<>> THEN st
    ELSE LET framework == Head(frameworks)
         IN  IF InList(framework, config["excluded_frameworks"])
             THEN [match |-> "excluded framework", match_color |-> "red"]
             ELSE IF ~InList(framework, config["frameworks"])
                  THEN FrameworkLoop_no_guard(Tail(frameworks), config,
                           [match |-> "new framework", match_color |-> "yellow"])
                  ELSE FrameworkLoop_no_guard(Tail(frameworks), config, st)

\* for framework in project["frameworks"]: if ... break / elif ...
RECURSIVE FrameworkLoop(_, _, _)
FrameworkLoop(frameworks, config, st) ==
    IF frameworks = <<>> THEN st
    ELSE LET framework == Head(frameworks)
         IN  IF /\ InList(framework, config["excluded_frameworks"])
                /\ st.match # "new language"
             THEN [match |-> "excluded framework", match_color |-> "red"]
             ELSE IF /\ ~InList(framework, config["frameworks"])
                     /\ st.match # "new language"
                  THEN FrameworkLoop(Tail(frameworks), config,
                           [match |-> "new framework", match_color |-> "yellow"])
                  ELSE FrameworkLoop(Tail(frameworks), config, st)

\* One pass of the loop body: the line click.secho prints for the project.
Verdict(project, config) ==
    LET afterLanguages == LanguageLoop(project["languages"], config, GoodMatch)
        afterFrameworks ==
            FrameworkLoop(project["frameworks"], config, afterLanguages)
    IN  [name  |-> project["name"],
         desc  |-> project["desc"],
         match |-> afterFrameworks.match,
         fg    |-> afterFrameworks.match_color]


(***************************************************************************)
(* Projects of the catalog, and repositories.                              *)
(***************************************************************************)
\* A git URL or a fork URL is kept as str.split("/") sees it.
FooGit == <<"https:", "", "example.com", "foo.git">>

BarGit == <<"https:", "", "example.com", "bar.git">>

FooProject ==
    [name |-> "foo", desc |-> "d", languages |-> <<"python">>,
     frameworks |-> <<>>, git |-> FooGit, task |-> [desc |-> "fix the typo"]]

\* The catalog entry of the end-to-end example: it has no task.
FooProjectNoTask ==
    [name |-> "foo", desc |-> "d", languages |-> <<"python">>,
     frameworks |-> <<>>, git |-> FooGit]

BarProject ==
    [name |-> "bar", desc |-> "b", languages |-> <<"rust">>,
     frameworks |-> <<"django", "jquery">>, git |-> BarGit,
     task |-> [desc |-> "add a test"]]

\* What the endpoint serves over time: maintainers add projects, change
\* them and withdraw them.
Catalogs ==
    {<<BarProject, FooProject>>, <<FooProjectNoTask>>, <<BarProject>>}

\* The project names typed on the command line: one the catalog knows at
\* times, one it never knows.
ProjectNames == {"foo", "zed"}

\* The preference files the user saves from the editor.
EditedPrefs ==
    {[languages |-> <<"python">>, frameworks |-> <<>>,
      excluded_frameworks |-> <<>>],
     [languages |-> <<"python", "rust">>, frameworks |-> <<"django">>,
      excluded_frameworks |-> <<"jquery">>]}

\* Lines of a .gitignore, each the sequence of its words.
RuleLine == <<"coderelay.json">>

\* "\n# Code Relay\ncoderelay.json\n"
CodeRelayBlock == << <<>>, <<"#", "Code", "Relay">>, RuleLine >>

\* The .gitignore a cloned repository may bring: none of its own, one that
\* does not speak of coderelay.json, one that carries the block an earlier
\* contributor committed, and one that names the file only in a comment.
RepoGitignores ==
    {NoFile,
     File(<< <<"node_modules">> >>),
     File(<< <<"node_modules">> >> \o CodeRelayBlock),
     File(<< <<"#", "see", "coderelay.json">>, <<"build">> >>)}

\* "coderelay.json" in gitignore_file.read(): the needle has no newline and
\* no blank, so it is found iff it lies within a word of some line.  Words
\* are atoms here: the word itself is the only one holding the needle.
Mentions(lines) ==
    \E i \in DOMAIN lines : \E j \in DOMAIN lines[i] :
        lines[i][j] = "coderelay.json"

\* How often the ignore rule itself is a line of the file.
RuleCount(lines) == Cardinality({i \in DOMAIN lines : lines[i] = RuleLine})

(***************************************************************************)
(* Workspace directories.                                                  *)
(***************************************************************************)
NoDir ==
    [exists |-> FALSE, repo |-> FALSE, gitignore |-> NoFile, meta |-> NoFile]

\* os.makedirs(project_path): a directory with nothing in it.
EmptyDir ==
    [exists |-> TRUE, repo |-> FALSE, gitignore |-> NoFile, meta |-> NoFile]

\* os.makedirs(project_path, exist_ok=True)
MakeDirs(dir) == IF dir.exists THEN dir ELSE EmptyDir

\* What git clone <url> <project_path> leaves: on a non-zero exit code the
\* directory stays as it was, otherwise it holds the repository.
CloneOutcomes ==
    {[rc |-> 1, gitignore |-> NoFile]}
        \cup {[rc |-> 0, gitignore |-> g] : g \in RepoGitignores}

CloneInto(dir, cloned) ==
    IF cloned.rc = 0
    THEN [dir EXCEPT !.repo = TRUE, !.gitignore = cloned.gitignore]
    ELSE dir

(***************************************************************************)
(* What a command leaves behind for the observer.                          *)
(***************************************************************************)
NoRun ==
    [cmd |-> "", project_name |-> "", fetched |-> <<>>, prompts |-> <<>>,
     config |-> <<>>, lines |-> <<>>, out |-> <<>>, error |-> "",
     git |-> <<>>, pr |-> <<>>]

Init ==
    /\ prefsFile = NoFile
    /\ remote \in Catalogs
    /\ gitInstalled \in BOOLEAN
    /\ workspaces = [n \in ProjectNames |-> NoDir]
    /\ lastRun = NoRun

(***************************************************************************)
(* user-prefs                                                              *)
(***************************************************************************)
\* Lines 46-51 writing a record without its excluded_frameworks member.
EnsurePrefs_short(file) ==
    IF ~file.exists THEN File(dump_drops_last(DefaultPrefs)) ELSE file

\* Lines 46-51 writing the default record over an existing file.
EnsurePrefs_overwrite(file) == File(dump(DefaultPrefs))

\* Lines 46-51: create the file with the default record when it is absent.
EnsurePrefs(file) ==
    IF ~file.exists THEN File(dump(DefaultPrefs)) ELSE file

\* The whole command; `answer` is the reply to "Do you want to change your
\* preferences (y/n)".  The editor it opens runs outside the program.
UserPrefsRun(file, answer) ==
    LET written == EnsurePrefs(file)
        config  == load(written.content)
        keys    == {"languages", "frameworks", "excluded_frameworks"}
        run     == [NoRun EXCEPT !.cmd = "user-prefs",
                                 !.config = <<config>>,
                                 !.out = <<"Your preferences:">>]
    IN  IF ~(keys \subseteq DOMAIN config)
        THEN \* config["..."] raises while the values are printed
             [file |-> written, run |-> [run EXCEPT !.error = "KeyError"]]
        ELSE [file |-> written,
              run  |-> [run EXCEPT
                          !.prompts = << <<"change your preferences", answer>> >>,
                          !.out = @ \o (IF answer THEN <<"open editor">>
                                        ELSE <<>>)]]

user_prefs ==
    \E answer \in BOOLEAN :
        LET r == UserPrefsRun(prefsFile, answer)
        IN  /\ prefsFile' = r.file
            /\ lastRun' = r.run
            /\ UNCHANGED <<remote, gitInstalled, workspaces>>

(***************************************************************************)
(* list-repos                                                              *)
(***************************************************************************)
\* The whole command; `net` is whether the catalog could be fetched.
ListReposRun(file, available_projects, net) ==
    LET run == [NoRun EXCEPT !.cmd = "list-repos"]
    IN  IF ~net
        THEN [file |-> file, run |-> [run EXCEPT !.error = "RequestException"]]
        ELSE IF ~file.exists
        THEN [file |-> file,
              run  |-> [run EXCEPT
                          !.fetched = <<available_projects>>,
                          !.out = <<"Please run coderelay user-prefs">>]]
        ELSE LET config == load(file.content)
             IN  [file |-> file,
                  run  |-> [run EXCEPT
                              !.fetched = <<available_projects>>,
                              !.config = <<config>>,
                              !.lines =
                                  [i \in DOMAIN available_projects |->
                                      Verdict(available_projects[i], config)],
                              !.out = <<"Get started on one">>]]

list_repos ==
    \E net \in BOOLEAN :
        LET r == ListReposRun(prefsFile, remote, net)
        IN  /\ prefsFile' = r.file
            /\ lastRun' = r.run
            /\ UNCHANGED <<remote, gitInstalled, workspaces>>

(***************************************************************************)
(* start-project                                                           *)
(***************************************************************************)
\* next((project for project in available_projects
\*       if project["name"] == project_name), None): <<>> is None.
Lookup(available_projects, project_name) ==
    LET hits == SelectSeq(available_projects,
                          LAMBDA project : project["name"] = project_name)
    IN  IF hits = <<>> THEN <<>> ELSE <<Head(hits)>>

\* Lines 125-130 with the directory removed whatever the answer.
ExistingDir_removes(dir, delete) == NoDir

\* Lines 125-130: the directory after the prompt "already exists. Delete
\* it (y/n)" is answered: shutil.rmtree on yes, untouched on no.
ExistingDir(dir, delete) == IF dir.exists /\ delete THEN NoDir ELSE dir

\* Lines 145-148: append the block unless the file speaks of coderelay.json.
AddIgnoreRule(gitignore) ==
    IF ~Mentions(gitignore.content)
    THEN File(gitignore.content \o CodeRelayBlock)
    ELSE gitignore

\* The whole command.  `net`: the catalog could be fetched; `delete`: the
\* reply to the deletion prompt; `cloned`: what git clone did.  The closing
\* "open the project now" prompt opens a file manager and changes nothing.
StartProjectRun(project_name, available_projects, net, git, dir, delete, cloned) ==
    LET project == Lookup(available_projects, project_name)
        run     == [NoRun EXCEPT !.cmd = "start-project",
                                 !.project_name = project_name]
        fetched == [run EXCEPT !.fetched = <<available_projects>>]
        asked   == [fetched EXCEPT
                      !.prompts = IF dir.exists
                                  THEN << <<"Delete it", delete>> >>
                                  ELSE <<>>]
        kept    == ExistingDir(dir, delete)
        \* os.makedirs(project_path, exist_ok=True), git clone
        made    == CloneInto(MakeDirs(kept), cloned)
        ran     == [asked EXCEPT !.git = << <<"clone", cloned.rc>> >>]
    IN  IF ~net
        THEN [dir |-> dir, run |-> [run EXCEPT !.error = "RequestException"]]
        ELSE IF ~git
        THEN [dir |-> dir,
              run |-> [fetched EXCEPT !.out = <<"Please install git first.">>]]
        ELSE IF project = <<>>
        THEN [dir |-> dir,
              run |-> [fetched EXCEPT !.out = <<"Could not find project">>]]
        ELSE IF dir.exists /\ ~delete
        THEN [dir |-> kept, run |-> [asked EXCEPT !.out = <<"Aborting.">>]]
        ELSE IF ~made.gitignore.exists
        THEN \* open(project_path + "/.gitignore", "r") raises
             [dir |-> made, run |-> [ran EXCEPT !.error = "FileNotFoundError"]]
        ELSE [dir |-> [made EXCEPT
                         !.gitignore = AddIgnoreRule(made.gitignore),
                         !.meta = File(dump(project[1]))],
              run |-> [ran EXCEPT !.out = <<"downloaded">>]]

\* An input is drawn where the code reads it: the deletion prompt is asked
\* only of an existing directory once git and the project are found, and
\* git clone runs only when no directory is left in the way.
start_project(project_name) ==
    \E net \in BOOLEAN :
        LET dir     == workspaces[project_name]
            reached == /\ net
                       /\ gitInstalled
                       /\ Lookup(remote, project_name) # <<>>
        IN  \E delete \in (IF reached /\ dir.exists THEN BOOLEAN ELSE {FALSE}) :
            \E cloned \in (IF reached /\ (~dir.exists \/ delete)
                            THEN CloneOutcomes
                            ELSE {[rc |-> 0, gitignore |-> NoFile]}) :
                LET r == StartProjectRun(project_name, remote, net,
                                         gitInstalled, dir, delete, cloned)
                IN  /\ workspaces' = [workspaces EXCEPT ![project_name] = r.dir]
                    /\ lastRun' = r.run
                    /\ UNCHANGED <<prefsFile, remote, gitInstalled>>

(***************************************************************************)
(* publish-changes                                                         *)
(***************************************************************************)
\* The fork URLs typed at the prompt: the shape of the example, and
\* "alice/foo", which has no path segment of index 3.
ForkUrls ==
    {<<"https:", "", "github.com", "alice", "foo">>, <<"alice", "foo">>}

GitSteps == {"remote add", "remote set-url", "add", "diff", "commit", "push"}

\* The exit code of each git subprocess of one run.
ExitCodes ==
    {rc \in [GitSteps -> {0, 1}] :
        Cardinality({g \in GitSteps : rc[g] # 0}) <= MaxFailing}

\* subprocess.call([...]) of each step in `steps`: the step and its code.
Calls(steps, rc) == [i \in DOMAIN steps |-> <<steps[i], rc[steps[i]]>>]

\* Lines 210-222 with commit and push run before the answer is looked at.
Upload_before_answer(project_config, project_remote_url, confirm, rc) ==
    IF "task" \notin DOMAIN project_config
    THEN [git |-> <<>>, out |-> <<"Uploading your code">>,
          error |-> "KeyError", pr |-> <<>>]
    ELSE IF ~confirm
    THEN [git |-> Calls(<<"commit", "push">>, rc), out |-> <<"Aborting.">>,
          error |-> "", pr |-> <<>>]
    ELSE [git |-> Calls(<<"commit", "push">>, rc),
          out |-> <<"Uploading your code", "Your code has been uploaded">>,
          error |-> "", pr |-> <<>>]

\* Lines 210-222: from the answer to "Do these changes look correct?" on.
Upload(project_config, project_remote_url, confirm, rc) ==
    IF ~confirm
    THEN [git |-> <<>>, out |-> <<"Aborting.">>, error |-> "", pr |-> <<>>]
    ELSE IF "task" \notin DOMAIN project_config
    THEN \* project_config["task"] raises before git commit is called
         [git |-> <<>>, out |-> <<"Uploading your code">>,
          error |-> "KeyError", pr |-> <<>>]
    ELSE IF Len(project_remote_url) < 4
    THEN \* project_remote_url.split("/")[3] raises after the push
         [git |-> Calls(<<"commit", "push">>, rc),
          out |-> <<"Uploading your code", "Your code has been uploaded">>,
          error |-> "IndexError", pr |-> <<>>]
    ELSE [git |-> Calls(<<"commit", "push">>, rc),
          out |-> <<"Uploading your code", "Your code has been uploaded">>,
          error |-> "",
          pr |-> << [git |-> project_config["git"],
                     compare |-> "main",
                     owner |-> project_remote_url[4]] >>]

\* Lines 172-182: the message the command stops with, or "".
PublishPreconditions(git, dir) ==
    IF ~dir.exists THEN "Could not find project"
    ELSE IF ~git THEN "Please install git first."
    ELSE IF ~dir.meta.exists THEN "Could not find project config."
    ELSE ""

\* The whole command.  `project_remote_url`: the fork URL typed; `confirm`:
\* the reply to "Do these changes look correct?"; `rc`: the exit codes.
PublishRun(project_name, git, dir, project_remote_url, confirm, rc) ==
    LET stop == PublishPreconditions(git, dir)
        run  == [NoRun EXCEPT !.cmd = "publish-changes",
                              !.project_name = project_name]
        project_config == load(dir.meta.content)
        setup == Calls(<<"remote add", "remote set-url", "add", "diff">>, rc)
        up    == Upload(project_config, project_remote_url, confirm, rc)
    IN  IF stop # ""
        THEN [run EXCEPT !.out = <<stop>>]
        ELSE IF "git" \notin DOMAIN project_config
        THEN [run EXCEPT !.config = <<project_config>>,
                         !.out = <<"What is a fork?">>,
                         !.error = "KeyError"]
        ELSE [run EXCEPT
                !.config = <<project_config>>,
                !.prompts = << <<"URL of your fork", project_remote_url>>,
                               <<"look correct", confirm>> >>,
                !.git = setup \o up.git,
                !.out = <<"What is a fork?", "Files changed:">> \o up.out,
                !.error = up.error,
                !.pr = up.pr]

\* The prompts are asked and git is run only past the preconditions.
publish_changes(project_name) ==
    LET dir      == workspaces[project_name]
        prompted == PublishPreconditions(gitInstalled, dir) = ""
    IN  \E project_remote_url \in (IF prompted THEN ForkUrls ELSE {<<>>}) :
        \E confirm \in (IF prompted THEN BOOLEAN ELSE {FALSE}) :
        \E rc \in (IF prompted THEN ExitCodes ELSE {[g \in GitSteps |-> 0]}) :
            /\ lastRun' = PublishRun(project_name, gitInstalled, dir,
                                     project_remote_url, confirm, rc)
            /\ UNCHANGED <<prefsFile, remote, gitInstalled, workspaces>>

(***************************************************************************)
(* The world outside the program.                                          *)
(***************************************************************************)
\* The user saves the preference file from the editor user-prefs opened.
EditPrefs ==
    /\ prefsFile.exists
    /\ \E p \in EditedPrefs : prefsFile' = File(dump(p))
    /\ UNCHANGED <<remote, gitInstalled, workspaces, lastRun>>

\* The maintainers change available_projects.json.
UpdateRemote ==
    /\ \E c \in Catalogs \ {remote} : remote' = c
    /\ UNCHANGED <<prefsFile, gitInstalled, workspaces, lastRun>>

\* git is installed or removed.
ToggleGit ==
    /\ gitInstalled' = ~gitInstalled
    /\ UNCHANGED <<prefsFile, remote, workspaces, lastRun>>

Next ==
    \/ user_prefs
    \/ list_repos
    \/ \E project_name \in ProjectNames : start_project(project_name)
    \/ \E project_name \in ProjectNames : publish_changes(project_name)
    \/ EditPrefs
    \/ UpdateRemote
    \/ ToggleGit

Spec == Init /\ [][Next]_vars

(***************************************************************************)
(* The matcher on its own: list-repos over every project and preference    *)
(* record built from a small set of tags.                                  *)
(***************************************************************************)
LanguageTags == {"python", "rust"}

FrameworkTags == {"django", "flask", "jquery"}

TagOrder == <<"python", "rust", "django", "flask", "jquery">>

\* The tags of S as a JSON list.
AsList(S) == SelectSeq(TagOrder, LAMBDA t : t \in S)

\* Every list over S of at most n tags, in every order, repeats included.
ListsUpTo(S, n) == UNION {[1 .. k -> S] : k \in 0 .. n}

MatcherProjects ==
    {[name |-> "p", desc |-> "d", languages |-> l, frameworks |-> f,
      git |-> FooGit, task |-> [desc |-> "t"]] :
        l \in ListsUpTo(LanguageTags, MaxTags),
        f \in ListsUpTo(FrameworkTags, MaxTags)}

MatcherConfigs ==
    {[languages |-> AsList(l), frameworks |-> AsList(f),
      excluded_frameworks |-> AsList(e)] :
        l \in SUBSET LanguageTags,
        f \in SUBSET FrameworkTags,
        e \in SUBSET FrameworkTags}

InitMatcher ==
    /\ prefsFile \in {File(dump(c)) : c \in MatcherConfigs}
    /\ remote \in {<<p>> : p \in MatcherProjects}
    /\ gitInstalled = TRUE
    /\ workspaces = [n \in ProjectNames |-> NoDir]
    /\ lastRun = NoRun

NextMatcher == list_repos

SpecMatcher == InitMatcher /\ [][NextMatcher]_vars

(***************************************************************************)
(* Properties of the matcher.                                              *)
(***************************************************************************)
Elems(list) == {list[i] : i \in DOMAIN list}

\* The verdict by strict precedence, stated over sets.
StrictPrecedence(project, config) ==
    IF \E l \in Elems(project["languages"]) :
           l \notin Elems(config["languages"])
    THEN "new language"
    ELSE IF \E f \in Elems(project["frameworks"]) :
                f \in Elems(config["excluded_frameworks"])
    THEN "excluded framework"
    ELSE IF \E f \in Elems(project["frameworks"]) :
                f \notin Elems(config["frameworks"])
    THEN "new framework"
    ELSE "good match"

\* The colour that goes with each verdict.
VerdictColour(match) ==
    CASE match = "good match" -> "green"
      [] match = "new language" -> "red"
      [] match = "excluded framework" -> "red"
      [] match = "new framework" -> "yellow"

\* list-repos has printed its verdicts.
Listed == lastRun.cmd = "list-repos" /\ lastRun.config # <<>>

\* Project i of the listing has no new language and the frameworks
\* [excludedFw, newFw]: the first excluded, the second neither accepted nor
\* excluded.
QuirkCase(i) ==
    LET project == lastRun.fetched[1][i]
        config  == lastRun.config[1]
    IN  /\ Elems(project["languages"]) \subseteq Elems(config["languages"])
        /\ Len(project["frameworks"]) = 2
        /\ project["frameworks"][1] \in Elems(config["excluded_frameworks"])
        /\ project["frameworks"][2] \notin Elems(config["frameworks"])
        /\ project["frameworks"][2] \notin Elems(config["excluded_frameworks"])

\* C1, as the specification states it: a project with no new language whose
\* frameworks are [excludedFw, newFw] is listed as "new framework" in yellow.
C1_QuirkNewFramework ==
    Listed =>
        \A i \in DOMAIN lastRun.lines :
            QuirkCase(i) =>
                /\ lastRun.lines[i].match = "new framework"
                /\ lastRun.lines[i].fg = "yellow"

\* C1, amended: a project with no new language whose frameworks are
\* [excludedFw, newFw] is listed as "excluded framework" in red: the loop
\* stops at the excluded framework and never looks at the one after it.
C1_QuirkExcludedFramework ==
    Listed =>
        \A i \in DOMAIN lastRun.lines :
            QuirkCase(i) =>
                /\ lastRun.lines[i].match = "excluded framework"
                /\ lastRun.lines[i].fg = "red"

\* A listing of a project in the case of C1.
C1_Witness ==
    /\ Listed
    /\ \E i \in DOMAIN lastRun.lines :
           /\ QuirkCase(i)
           /\ lastRun.lines[i].match = "excluded framework"

\* C2: every line list-repos prints carries the verdict of strict
\* precedence (new language, else excluded framework, else new framework,
\* else good match) for its project and the preferences read, and the colour
\* that goes with that verdict.
C2_StrictPrecedence ==
    Listed =>
        LET projects == lastRun.fetched[1]
            config   == lastRun.config[1]
        IN  /\ Len(lastRun.lines) = Len(projects)
            /\ \A i \in DOMAIN projects :
                   /\ lastRun.lines[i].match =
                          StrictPrecedence(projects[i], config)
                   /\ lastRun.lines[i].fg =
                          VerdictColour(lastRun.lines[i].match)

\* A listing where a project has a new language after an accepted one and
\* also an excluded framework, and is listed as "new language".
C2_Witness ==
    /\ Listed
    /\ \E i \in DOMAIN lastRun.lines :
           LET project == lastRun.fetched[1][i]
               config  == lastRun.config[1]
           IN  /\ Len(project["languages"]) = 2
               /\ project["languages"][1] \in Elems(config["languages"])
               /\ project["languages"][2] \notin Elems(config["languages"])
               /\ \E f \in Elems(project["frameworks"]) :
                      f \in Elems(config["excluded_frameworks"])
               /\ lastRun.lines[i].match = "new language"
               /\ lastRun.lines[i].fg = "red"

(***************************************************************************)
(* Properties of the preference file.                                      *)
(***************************************************************************)
\* The step is a run of command cmd that shows: it left a new record, a
\* changed workspace, or a preference file changed by no edit of the user.
Ran(cmd) ==
    /\ lastRun'.cmd = cmd
    /\ \/ lastRun' # lastRun
       \/ workspaces' # workspaces
       \/ prefsFile' # prefsFile /\ ~EditPrefs

\* The hint list-repos prints when there is no preference file.
PrefsHint == <<"Please run coderelay user-prefs">>

\* C7, as the specification states it: when user-prefs or list-repos gets
\* to read the preferences while the file is absent, the file exists
\* afterwards and holds three empty lists.
C7_CreatedOnFirstAccess ==
    [][(/\ ~prefsFile.exists
        /\ \/ Ran("user-prefs")
           \/ Ran("list-repos") /\ lastRun'.fetched # <<>>)
          => /\ prefsFile'.exists
             /\ load(prefsFile'.content) = DefaultPrefs]_vars

\* C7, amended: when user-prefs runs while the file is absent, the file
\* exists afterwards and holds three empty lists; list-repos run while the
\* file is absent leaves it absent, prints the hint to run user-prefs and
\* lists nothing.
C7_CreatedByUserPrefsOnly ==
    [][/\ (Ran("user-prefs") /\ ~prefsFile.exists)
            => /\ prefsFile'.exists
               /\ load(prefsFile'.content) = DefaultPrefs
       /\ (Ran("list-repos") /\ ~prefsFile.exists)
            => /\ ~prefsFile'.exists
               /\ lastRun'.lines = <<>>
               /\ lastRun'.fetched # <<>> => lastRun'.out = PrefsHint]_vars

\* user-prefs has just created the file: it holds the default record, which
\* no edit of the user writes.
C7_Witness ==
    /\ lastRun.cmd = "user-prefs"
    /\ prefsFile.exists
    /\ load(prefsFile.content) = DefaultPrefs
    /\ DefaultPrefs \notin EditedPrefs

\* C8: the first user-prefs run with no file reads back the three empty
\* lists it wrote; once the file exists every step that is not an edit of
\* the user leaves it as it is, and user-prefs and list-repos load the
\* record the file held before the run.
C8_RoundTripIdempotent ==
    [][/\ (Ran("user-prefs") /\ ~prefsFile.exists)
            => /\ lastRun'.config = <<DefaultPrefs>>
               /\ lastRun'.error = ""
       /\ (prefsFile.exists /\ ~EditPrefs) => prefsFile' = prefsFile
       /\ (/\ prefsFile.exists
           /\ \/ Ran("user-prefs")
              \/ Ran("list-repos") /\ lastRun'.fetched # <<>>)
            => lastRun'.config = <<load(prefsFile.content)>>]_vars

\* start-project ran to its end while an edited preference file existed.
C8_Witness ==
    /\ prefsFile.exists
    /\ load(prefsFile.content) \in EditedPrefs
    /\ lastRun.cmd = "start-project"
    /\ lastRun.out = <<"downloaded">>

(***************************************************************************)
(* Properties of start-project.                                            *)
(***************************************************************************)
\* C5: the checks of start-project come in the order git, catalog entry,
\* existing directory, and a run stopped by any of them (git missing, name
\* unknown, deletion declined) runs no clone and leaves every workspace
\* directory and the preference file as they were.
C5_StopsLeaveFilesystem ==
    [][(Ran("start-project") /\ lastRun'.fetched # <<>>) =>
          LET n        == lastRun'.project_name
              found    == Lookup(remote, n) # <<>>
              declined == lastRun'.prompts = << <<"Delete it", FALSE>> >>
          IN  /\ ~gitInstalled
                    => lastRun'.out = <<"Please install git first.">>
              /\ (gitInstalled /\ ~found)
                    => lastRun'.out = <<"Could not find project">>
              /\ (gitInstalled /\ found /\ workspaces[n].exists)
                    => lastRun'.prompts # <<>>
              /\ (gitInstalled /\ found /\ declined)
                    => lastRun'.out = <<"Aborting.">>
              /\ (~gitInstalled \/ ~found \/ declined)
                    => /\ workspaces' = workspaces
                       /\ prefsFile' = prefsFile
                       /\ lastRun'.git = <<>>]_vars

\* start-project stopped at the deletion prompt on a complete workspace.
C5_Witness ==
    /\ lastRun.cmd = "start-project"
    /\ lastRun.prompts = << <<"Delete it", FALSE>> >>
    /\ lastRun.out = <<"Aborting.">>
    /\ workspaces[lastRun.project_name].meta.exists
    /\ workspaces[lastRun.project_name].gitignore.exists

\* start-project ran git clone and printed its success message.
Downloaded == lastRun.cmd = "start-project" /\ lastRun.out = <<"downloaded">>

\* C4: after a start-project run that reached completion the workspace's
\* .gitignore holds the rule line coderelay.json exactly once, whatever the
\* cloned repository's .gitignore said, and coderelay.json holds the
\* catalog record of the project.
C4_IgnoreRuleExactlyOnce ==
    Downloaded =>
        LET dir     == workspaces[lastRun.project_name]
            project == Lookup(lastRun.fetched[1], lastRun.project_name)
        IN  /\ dir.gitignore.exists
            /\ RuleCount(dir.gitignore.content) = 1
            /\ dir.meta.exists
            /\ load(dir.meta.content) = project[1]

\* C9: when git clone ran and failed, start-project carried on: it updated
\* .gitignore, wrote coderelay.json and printed the success message.
C9_ProceedsAfterFailedClone ==
    (/\ lastRun.cmd = "start-project"
     /\ lastRun.git # <<>>
     /\ lastRun.git[1][2] # 0)
        => LET dir == workspaces[lastRun.project_name]
           IN  /\ lastRun.error = ""
               /\ lastRun.out = <<"downloaded">>
               /\ dir.gitignore.exists
               /\ Mentions(dir.gitignore.content)
               /\ dir.meta.exists

\* What the code does where C9 fails: a failed clone leaves no .gitignore,
\* reading it raises, and the directory stays behind empty.
FailedCloneRaises ==
    (/\ lastRun.cmd = "start-project"
     /\ lastRun.git # <<>>
     /\ lastRun.git[1][2] # 0)
        => /\ lastRun.error = "FileNotFoundError"
           /\ lastRun.out = <<>>
           /\ workspaces[lastRun.project_name] = EmptyDir

\* What the code does where C4 fails: it appends its block at most once,
\* and only to a .gitignore that did not speak of coderelay.json.
BlockAppendedAtMostOnce ==
    Downloaded =>
        LET lines == workspaces[lastRun.project_name].gitignore.content
        IN  /\ Mentions(lines)
            /\ RuleCount(lines) <= 1
            /\ Cardinality({i \in DOMAIN lines :
                                lines[i] = <<"#", "Code", "Relay">>}) <= 1

\* C10: between commands a workspace directory exists exactly when its
\* coderelay.json exists.
C10_DirIffMetadata ==
    \A n \in ProjectNames : workspaces[n].exists <=> workspaces[n].meta.exists

\* The second half of C10, which the code keeps: publish-changes on a
\* workspace whose directory or coderelay.json is missing runs no git
\* command and stops at one of its precondition messages.
PublishWithoutWorkspaceRunsNoGit ==
    (/\ lastRun.cmd = "publish-changes"
     /\ \/ ~workspaces[lastRun.project_name].exists
        \/ ~workspaces[lastRun.project_name].meta.exists)
        => /\ lastRun.git = <<>>
           /\ lastRun.out \in {<<"Could not find project">>,
                                <<"Please install git first.">>,
                                <<"Could not find project config.">>}

(***************************************************************************)
(* Properties of publish-changes.                                          *)
(***************************************************************************)
\* The git subcommands of the last run, in the order they were called.
StepsRun == [i \in DOMAIN lastRun.git |-> lastRun.git[i][1]]

\* The reply to "Do these changes look correct?" was b.
Answered(b) ==
    \E i \in DOMAIN lastRun.prompts :
        /\ lastRun.prompts[i][1] = "look correct"
        /\ lastRun.prompts[i][2] = b

\* C3: in publish-changes a failing remote set-url, add, commit or push is
\* the last git step of the run, and the run prints neither the upload
\* message nor the pull-request URL.
C3_AbortsOnFailedStep ==
    lastRun.cmd = "publish-changes" =>
        \A i \in DOMAIN lastRun.git :
            (/\ lastRun.git[i][1] \in
                    {"remote set-url", "add", "commit", "push"}
             /\ lastRun.git[i][2] # 0)
                => /\ i = Len(lastRun.git)
                   /\ ~InList("Your code has been uploaded", lastRun.out)
                   /\ lastRun.pr = <<>>

\* C6: in publish-changes git commit and git push run only after the
\* changes were confirmed, commit before push; a run in which they were
\* declined calls neither.
C6_CommitPushAfterConfirm ==
    lastRun.cmd = "publish-changes" =>
        /\ (InList("commit", StepsRun) \/ InList("push", StepsRun))
              => Answered(TRUE)
        /\ \A j \in DOMAIN StepsRun :
               StepsRun[j] = "push"
                   => \E i \in 1 .. (j - 1) : StepsRun[i] = "commit"
        /\ Answered(FALSE)
              => /\ ~InList("commit", StepsRun)
                 /\ ~InList("push", StepsRun)
                 /\ lastRun.out[Len(lastRun.out)] = "Aborting."

\* A confirmed publish-changes run that committed and then pushed.
C6_Witness ==
    /\ lastRun.cmd = "publish-changes"
    /\ Answered(TRUE)
    /\ StepsRun =
           <<"remote add", "remote set-url", "add", "diff", "commit", "push">>
    /\ lastRun.pr # <<>>

=============================================================================
